---------------------------- MODULE Spec2Model ----------------------------
(***************************************************************************)
(* State-machine model of the GitHub and GitLab readers of Verba            *)
(* (goldenverba/components/reader/githubreader.py, gitlabreader.py).        *)
(*                                                                          *)
(* Strings are sequences of one-character strings, so that split, join,     *)
(* startswith and endswith are computed character by character.             *)
(***************************************************************************)
EXTENDS Integers, Sequences, FiniteSets, TLC

VARIABLES
    adapter,        \* "github" or "gitlab": which reader class was constructed
    pdfCfg,         \* UNSTRUCTURED_API_URL / UNSTRUCTURED_API_KEY set at construction
    paths,          \* load(): the list of location strings
    pc,             \* load(): position of the call
    i,              \* load(): index of the current location in paths
    files,          \* load(): the list fetch_docs returned for the current location
    j,              \* load(): index of the current file in files
    cur,            \* load(): (content, link, _path) of the file just downloaded
    documents,      \* load(): the documents list
    response,       \* fetch_docs(): the API's answer to the tree request(s)
    tempFiles,      \* local storage: names of the files written by the fallback path
    fetched,        \* history: the download_file calls made, as <<i, j>>
    outcomes,       \* history: what became of each file that was fetched
    raisedBy,       \* history: the step whose exception left load()
    used,           \* history: number of tree entries the remote has served
    segs,           \* parser check: the segments the location was written from
    location,       \* parser check: the location string
    parsedFetch,    \* parser check: what fetch_docs parsed
    parsedDownload  \* parser check: what download_file parsed

vars == <<adapter, pdfCfg, paths, pc, i, files, j, cur, documents, response,
          tempFiles, fetched, outcomes, raisedBy, used,
          segs, location, parsedFetch, parsedDownload>>

loadVars == <<adapter, pdfCfg, paths, pc, i, files, j, cur, documents, response,
              tempFiles, fetched, outcomes, raisedBy, used>>

parseVars == <<segs, location, parsedFetch, parsedDownload>>

-----------------------------------------------------------------------------
(* Bounds of the model. *)

\* number of location strings in one load() call
MaxLocs == 2
\* number of tree entries the remote serves during one load() call
MaxEntries == 3
\* number of files the listers return during one load() call
MaxFiles == 2
\* number of documents one extractor call returns
MaxParts == 1
\* nesting of sub-folders below the folder a GitLab location names
MaxDepth == 1
\* number of segments of a location string handed to the parsers
MaxSegs == 5

-----------------------------------------------------------------------------
(* Strings. *)

Slash == "/"

\* str.split(sep): always at least one segment; "" gives [""]
RECURSIVE Split(_, _)
Split(s, sep) ==
    IF s = <<>> THEN << <<>> >>
    ELSE IF Head(s) = sep THEN << <<>> >> \o Split(Tail(s), sep)
    ELSE LET r == Split(Tail(s), sep)
         IN  << <<Head(s)>> \o Head(r) >> \o Tail(r)

\* sep.join(parts)
RECURSIVE Join(_, _)
Join(parts, sep) ==
    IF parts = <<>> THEN <<>>
    ELSE IF Len(parts) = 1 THEN parts[1]
    ELSE parts[1] \o <<sep>> \o Join(Tail(parts), sep)

\* s.startswith(p)
StartsWith(s, p) ==
    /\ Len(p) <= Len(s)
    /\ SubSeq(s, 1, Len(p)) = p

\* s.endswith(suffix)
EndsWith(s, suffix) ==
    /\ Len(suffix) <= Len(s)
    /\ SubSeq(s, Len(s) - Len(suffix) + 1, Len(s)) = suffix

\* s.endswith(tuple of suffixes)
EndsWithAny(s, suffixes) == \E x \in suffixes : EndsWith(s, x)

\* python's seq[k:] for a 0-based k
SliceFrom(seq, k) == SubSeq(seq, k + 1, Len(seq))

\* python's seq[-1]
Last(seq) == seq[Len(seq)]

DotMd   == <<".", "m", "d">>
DotMdx  == <<".", "m", "d", "x">>
DotTxt  == <<".", "t", "x", "t">>
DotJson == <<".", "j", "s", "o", "n">>
DotPdf  == <<".", "p", "d", "f">>
DotEpub == <<".", "e", "p", "u", "b">>
DotPng  == <<".", "p", "n", "g">>
Main    == <<"m", "a", "i", "n">>

-----------------------------------------------------------------------------
(* Construction: the allow-list of each reader. *)

TextFileTypes == {DotMd, DotMdx, DotTxt, DotJson}

GithubSupportedFileTypes(cfg) ==
    IF cfg THEN TextFileTypes \cup {DotPdf, DotEpub} ELSE TextFileTypes

GitLabSupportedFileTypes(cfg) ==
    IF cfg THEN TextFileTypes \cup {DotPdf} ELSE TextFileTypes

SupportedFileTypes(a, cfg) ==
    IF a = "github" THEN GithubSupportedFileTypes(cfg)
    ELSE GitLabSupportedFileTypes(cfg)

-----------------------------------------------------------------------------
(* The path parsers. *)

\* a faulty variant: the default branch is taken one segment too late
GithubBranchLate(split) == IF Len(split) > 3 THEN split[3] ELSE Main

\* branch = split[2] if len(split) > 2 else "main"
GithubBranch(split) == IF Len(split) > 2 THEN split[3] ELSE Main

\* folder_path = "/".join(split[3:]) if len(split) > 3 else ""
GithubFolderPath(split) ==
    IF Len(split) > 3 THEN Join(SliceFrom(split, 3), Slash) ELSE <<>>

\* GithubReader.fetch_docs, lines 136-140; split[1] raises IndexError
GithubFetchParse(path) ==
    LET split == Split(path, Slash)
    IN  IF Len(split) < 2
        THEN [raised |-> TRUE, owner |-> <<>>, repo |-> <<>>,
              branch |-> <<>>, folder_path |-> <<>>]
        ELSE [raised |-> FALSE, owner |-> split[1], repo |-> split[2],
              branch |-> GithubBranch(split),
              folder_path |-> GithubFolderPath(split)]

\* GithubReader.download_file, lines 174-177
GithubDownloadParse(path) ==
    LET split == Split(path, Slash)
    IN  IF Len(split) < 2
        THEN [raised |-> TRUE, owner |-> <<>>, repo |-> <<>>, branch |-> <<>>]
        ELSE [raised |-> FALSE, owner |-> split[1], repo |-> split[2],
              branch |-> GithubBranch(split)]

\* GitLabReader._parse_path; split[1] raises IndexError
GitLabParsePath(path) ==
    LET split == Split(path, Slash)
    IN  IF Len(split) < 2
        THEN [raised |-> TRUE, project_id |-> <<>>, branch |-> <<>>,
              folder_path |-> <<>>]
        ELSE [raised |-> FALSE, project_id |-> split[1], branch |-> split[2],
              folder_path |-> IF Len(split) > 2
                              THEN Join(SliceFrom(split, 2), Slash) ELSE <<>>]

-----------------------------------------------------------------------------
(* The remote: what the tree APIs answer.                                   *)
(*                                                                          *)
(* A response is [kind |-> "error"] (non-2xx status, or a body that is not  *)
(* the expected JSON) or [kind |-> "ok", tree |-> entries].  An entry is   *)
(* [kind, type, path, sub]: kind "ok" is a well-formed entry, "nokey" an    *)
(* entry without its "type"/"path" keys, "nonstr" an entry whose path is    *)
(* not a string.  sub is the response to the tree request for the entry's   *)
(* path (GitLab asks once per folder level).                                *)

NoResponse == [kind |-> "none"]
ErrorResponse == [kind |-> "error"]
OkResponse(entries) == [kind |-> "ok", tree |-> entries]

Blob(p) == [kind |-> "ok", type |-> "blob", path |-> p, sub |-> NoResponse]
Tree(p, r) == [kind |-> "ok", type |-> "tree", path |-> p, sub |-> r]
NoKeyEntry == [kind |-> "nokey", type |-> "blob", path |-> <<>>, sub |-> NoResponse]
NonStrTree == [kind |-> "nonstr", type |-> "tree", path |-> <<>>, sub |-> NoResponse]

\* the path of entry name inside folder
Child(folder, name) == IF folder = <<>> THEN name ELSE folder \o <<Slash>> \o name

\* paths of the recursive tree of the GitHub repository o/r
GithubPathPool ==
    { <<"g", "/", "e">> \o DotEpub,
      <<"g", "/", "c">> \o DotJson,
      <<"g", "/", "i">> \o DotPng,
      <<"g", "b">> \o DotMd }

GithubEntries == {Blob(p) : p \in GithubPathPool} \cup {NoKeyEntry}

RECURSIVE SeqsOfLen(_, _)
SeqsOfLen(S, n) ==
    IF n = 0 THEN {<<>>}
    ELSE {Append(q, x) : q \in SeqsOfLen(S, n - 1), x \in S}

SeqsUpTo(S, n) == UNION {SeqsOfLen(S, k) : k \in 0..n}

\* the GitHub responses of exactly m entries
GithubResponses(m) ==
    {OkResponse(t) : t \in SeqsOfLen(GithubEntries, m)}
        \cup (IF m = 0 THEN {ErrorResponse} ELSE {})

\* file and folder names of the GitLab project
GitLabNamePool ==
    { <<"d">> \o DotPdf, <<"c">> \o DotJson, <<"a">> \o DotMd, <<"i">> \o DotPng }
\* file names inside its sub-folders
GitLabSubNamePool == { <<"b">> \o DotTxt }
GitLabDirName == <<"s">>

\* the file names at a level that may hold sub-folders nested d deep
NamesAt(d) == IF d = MaxDepth THEN GitLabNamePool ELSE GitLabSubNamePool

RECURSIVE GitLabForests(_, _, _)
RECURSIVE GitLabEntries(_, _, _)
\* the GitLab responses for folder that hold exactly m entries, sub-folders
\* nested at most d deep
GitLabResponses(folder, m, d) ==
    {OkResponse(t) : t \in GitLabForests(folder, m, d)}
        \cup (IF m = 0 THEN {ErrorResponse} ELSE {})

\* the entries of folder that hold, with their sub-folders, exactly k entries
GitLabEntries(folder, k, d) ==
    (IF k = 1
     THEN {Blob(Child(folder, n)) : n \in NamesAt(d)}
              \cup {NoKeyEntry} \cup (IF d > 0 THEN {NonStrTree} ELSE {})
     ELSE {})
    \cup (IF d > 0
          THEN {Tree(Child(folder, GitLabDirName), r) :
                    r \in GitLabResponses(Child(folder, GitLabDirName), k - 1, d - 1)}
          ELSE {})

GitLabForests(folder, m, d) ==
    IF m = 0 THEN {<<>>}
    ELSE UNION { { <<e>> \o rest : e \in GitLabEntries(folder, k, d),
                                   rest \in GitLabForests(folder, m - k, d) }
                 : k \in 1..m }

-----------------------------------------------------------------------------
(* The tree listers. *)

Raised == [raised |-> TRUE, files |-> <<>>]
Returned(fs) == [raised |-> FALSE, files |-> fs]

\* the suffixes the GitHub lister tests, lines 155-160
GithubListedSuffixes == {DotMd, DotMdx, DotTxt, DotJson, DotPdf, DotEpub}

\* the condition of the list comprehension, lines 153-161
GithubKeeps(entry, folder_path) ==
    /\ StartsWith(entry.path, folder_path)
    /\ EndsWithAny(entry.path, GithubListedSuffixes)

\* GithubReader.fetch_docs
GithubFetchDocs(path, resp, cfg) ==
    LET parsed == GithubFetchParse(path)
        Keep(e) == GithubKeeps(e, parsed.folder_path)
    IN  IF parsed.raised THEN Raised
        ELSE IF resp.kind # "ok" THEN Raised
        ELSE IF \E k \in 1..Len(resp.tree) : resp.tree[k].kind # "ok" THEN Raised
        ELSE LET kept == SelectSeq(resp.tree, Keep)
             IN  Returned([k \in 1..Len(kept) |-> kept[k].path])

\* a file reference of the GitLab lister, line 149
GitLabFileRef(p, project_id, branch) ==
    [path |-> p, project_id |-> project_id, branch |-> branch]

\* a faulty variant: a failing level drops what it had collected
GitLabListingFailedEmpty(fs) == <<>>

\* the except clause of fetch_docs, lines 161-164: what was collected is returned
GitLabListingFailed(fs) == fs

\* files.extend(...), line 154
GitLabExtend(fs, sub) == fs \o sub

RECURSIVE GitLabWalk(_, _, _, _, _, _)
RECURSIVE GitLabFetchLevel(_, _, _, _)
\* the loop over the entries of one level, lines 146-156
GitLabWalk(entries, k, fs, project_id, branch, types) ==
    IF k > Len(entries) THEN fs
    ELSE LET e == entries[k]
         IN  IF e.kind = "nokey" THEN GitLabListingFailed(fs)
             ELSE IF e.type = "blob" /\ e.kind = "nonstr" THEN GitLabListingFailed(fs)
             ELSE IF e.type = "blob" /\ EndsWithAny(e.path, types)
             THEN GitLabWalk(entries, k + 1,
                             Append(fs, GitLabFileRef(e.path, project_id, branch)),
                             project_id, branch, types)
             ELSE IF e.type = "tree"
             THEN IF e.kind = "ok"
                  THEN GitLabWalk(entries, k + 1,
                                  GitLabExtend(fs, GitLabFetchLevel(e.sub, project_id,
                                                                    branch, types)),
                                  project_id, branch, types)
                  ELSE GitLabListingFailed(fs)
             ELSE GitLabWalk(entries, k + 1, fs, project_id, branch, types)

\* GitLabReader.fetch_docs for one folder level, lines 130-164
GitLabFetchLevel(resp, project_id, branch, types) ==
    IF resp.kind # "ok" THEN GitLabListingFailed(<<>>)
    ELSE GitLabWalk(resp.tree, 1, <<>>, project_id, branch, types)

\* GitLabReader.fetch_docs(path): the location is parsed outside the try
GitLabFetchDocs(path, resp, cfg) ==
    LET parsed == GitLabParsePath(path)
    IN  IF parsed.raised THEN Raised
        ELSE Returned(GitLabFetchLevel(resp, parsed.project_id, parsed.branch,
                                       GitLabSupportedFileTypes(cfg)))

FetchDocs(a, path, resp, cfg) ==
    IF a = "github" THEN GithubFetchDocs(path, resp, cfg)
    ELSE GitLabFetchDocs(path, resp, cfg)

\* whether fetch_docs fails before it asks the remote
ParseRaises(a, path) ==
    IF a = "github" THEN GithubFetchParse(path).raised
    ELSE GitLabParsePath(path).raised

\* what the remote may answer to the tree request(s) of a location
Responses(a, path, m) ==
    IF a = "github" THEN GithubResponses(m)
    ELSE GitLabResponses(GitLabParsePath(path).folder_path, m, MaxDepth)

-----------------------------------------------------------------------------
(* Values the variables hold while unused. *)

NoFile == [content |-> "none", link |-> <<>>, path |-> <<>>]
\* no parsed owner holds a slash, so these differ from every parser result
NotParsed == [raised |-> FALSE, owner |-> <<Slash>>, repo |-> <<>>, branch |-> <<>>]
NotParsedFetch == [raised |-> FALSE, owner |-> <<Slash>>, repo |-> <<>>,
                   branch |-> <<>>, folder_path |-> <<>>]

LoadIdle ==
    /\ adapter = "github"
    /\ pdfCfg = FALSE
    /\ paths = <<>>
    /\ pc = "idle"
    /\ i = 1
    /\ files = <<>>
    /\ j = 1
    /\ cur = NoFile
    /\ documents = <<>>
    /\ response = NoResponse
    /\ tempFiles = {}
    /\ fetched = <<>>
    /\ outcomes = <<>>
    /\ raisedBy = "none"
    /\ used = 0

-----------------------------------------------------------------------------
(* load(): the batch call. *)

LocEmpty  == <<>>
LocOne    == <<"o">>
LocFolder == <<"o", "/", "r", "/", "m", "/", "g">>

\* the location strings a caller hands to load()
LocationPool == {LocEmpty, LocOne, LocFolder}

\* the answers of m entries the remote may give for each reader and location
RemoteAnswers ==
    [a \in {"github", "gitlab"} |->
        [loc \in LocationPool |->
            [m \in 0..MaxEntries |->
                IF ParseRaises(a, loc) THEN {} ELSE Responses(a, loc, m)]]]

\* the path string of an element of files: GitHub lists strings, GitLab
\* lists references
FilePath(a, f) == IF a = "github" THEN f ELSE f.path

\* filename = _file.split("/")[-1] (GitHub), _path.split("/")[-1] (GitLab)
FileName(p) == Last(Split(p, Slash))

\* the test that sends a file to the extractors: line 75 of each reader
IsBinary(a, p) ==
    IF a = "github"
    THEN EndsWith(FileName(p), DotPdf) \/ EndsWith(FileName(p), DotEpub)
    ELSE EndsWith(p, DotPdf)

\* the test of the elif: line 104 (GitHub), line 103 (GitLab)
IsJson(a, p) ==
    IF a = "github" THEN EndsWith(FileName(p), DotJson) ELSE EndsWith(p, DotJson)

\* what the content API may hold for a file
Contents(a, p) ==
    IF IsBinary(a, p) THEN {"base64"}
    ELSE IF IsJson(a, p) THEN {"json_document", "json_invalid", "json_not_document"}
    ELSE {"text"}

\* temp_file_path = "temp_" + filename
TempFilePath(filename) == <<"t", "e", "m", "p", "_">> \o filename

\* a document record; loc, file and part say which file produced it
Doc(name, via, l, f, part) ==
    [name |-> name, via |-> via, loc |-> l, file |-> f, part |-> part]

\* the documents an extractor returns for a file
Parts(name, via, l, f, n) == [k \in 1..n |-> Doc(name, via, l, f, k)]

Outcome(l, f, calls, result, n) ==
    [loc |-> l, file |-> f, calls |-> calls, result |-> result, n |-> n]

\* a faulty variant: new documents are put in front
AppendDocsFront(docs, new) == new \o docs

\* for doc in parsed_docs: documents.append(doc); documents.append(document)
AppendDocs(docs, new) == docs \o new

\* a faulty variant: a failed download ends the loop over the files (break)
AfterSkipBreak(n, k) == n + 1

\* continue: the loop goes on with the next file
AfterSkip(n, k) == k + 1

\* load(paths=ps) is called
Load ==
    /\ pc = "idle"
    /\ \E ps \in SeqsUpTo(LocationPool, MaxLocs) : paths' = ps
    /\ pc' = "path"
    /\ i' = 1
    /\ documents' = <<>>
    /\ UNCHANGED <<adapter, pdfCfg, files, j, cur, response, tempFiles, fetched,
                   outcomes, raisedBy, used>>
    /\ UNCHANGED parseVars

\* the loop over paths is over: return documents
Return ==
    /\ pc = "path"
    /\ i > Len(paths)
    /\ pc' = "done"
    /\ UNCHANGED <<adapter, pdfCfg, paths, i, files, j, cur, documents, response,
                   tempFiles, fetched, outcomes, raisedBy, used>>
    /\ UNCHANGED parseVars

\* GitHub, line 62: an empty location is passed over
SkipEmptyPath ==
    /\ pc = "path"
    /\ i <= Len(paths)
    /\ adapter = "github"
    /\ paths[i] = <<>>
    /\ i' = i + 1
    /\ UNCHANGED <<adapter, pdfCfg, paths, pc, files, j, cur, documents, response,
                   tempFiles, fetched, outcomes, raisedBy, used>>
    /\ UNCHANGED parseVars

\* a faulty variant: a listing failure of GitLab leaves load()
ListingRaisedAlways(a) == "raised"

\* GitHub does not catch what fetch_docs raises (line 63); GitLab does and
\* goes on with the next location (lines 61-65)
ListingRaised(a) == IF a = "github" THEN "raised" ELSE "path"

\* files = self.fetch_docs(path), the location cannot be parsed
FetchDocsParseFails ==
    /\ pc = "path"
    /\ i <= Len(paths)
    /\ adapter = "github" => paths[i] # <<>>
    /\ ParseRaises(adapter, paths[i])
    /\ pc' = ListingRaised(adapter)
    /\ raisedBy' = IF pc' = "raised" THEN "fetch_docs" ELSE raisedBy
    /\ i' = IF pc' = "raised" THEN i ELSE i + 1
    /\ UNCHANGED <<adapter, pdfCfg, paths, files, j, cur, documents, response,
                   tempFiles, fetched, outcomes, used>>
    /\ UNCHANGED parseVars

\* files = self.fetch_docs(path), the remote answers
FetchDocsCall ==
    /\ pc = "path"
    /\ i <= Len(paths)
    /\ adapter = "github" => paths[i] # <<>>
    /\ ~ParseRaises(adapter, paths[i])
    /\ \E m \in 0..(MaxEntries - used) :
         \E resp \in RemoteAnswers[adapter][paths[i]][m] :
            LET r == FetchDocs(adapter, paths[i], resp, pdfCfg)
            IN  /\ ~r.raised => Len(r.files) <= MaxFiles - Len(fetched)
                /\ response' = resp
                /\ used' = used + m
                /\ IF r.raised
                   THEN /\ pc' = ListingRaised(adapter)
                        /\ raisedBy' = IF pc' = "raised" THEN "fetch_docs" ELSE raisedBy
                        /\ i' = IF pc' = "raised" THEN i ELSE i + 1
                        /\ UNCHANGED <<files, j>>
                   ELSE /\ pc' = "listed"
                        /\ files' = r.files
                        /\ j' = 1
                        /\ UNCHANGED <<i, raisedBy>>
    /\ UNCHANGED <<adapter, pdfCfg, paths, cur, documents, tempFiles, fetched, outcomes>>
    /\ UNCHANGED parseVars

\* for _file in files: the loop starts, the response is dropped
StartFiles ==
    /\ pc = "listed"
    /\ pc' = "file"
    /\ response' = NoResponse
    /\ UNCHANGED <<adapter, pdfCfg, paths, i, files, j, cur, documents,
                   tempFiles, fetched, outcomes, raisedBy, used>>
    /\ UNCHANGED parseVars

\* the loop over files is over: next location
NextLocation ==
    /\ pc = "file"
    /\ j > Len(files)
    /\ pc' = "path"
    /\ i' = i + 1
    /\ files' = <<>>
    /\ j' = 1
    /\ UNCHANGED <<adapter, pdfCfg, paths, cur, documents, response,
                   tempFiles, fetched, outcomes, raisedBy, used>>
    /\ UNCHANGED parseVars

\* download_file raises (non-2xx status, body that is not JSON, missing
\* key): except, warn, continue
DownloadFails ==
    /\ pc = "file"
    /\ j <= Len(files)
    /\ outcomes' = Append(outcomes, Outcome(i, j, <<>>, "fetch_failed", 0))
    /\ fetched' = Append(fetched, <<i, j>>)
    /\ j' = AfterSkip(Len(files), j)
    /\ UNCHANGED <<adapter, pdfCfg, paths, pc, i, files, cur, documents, response,
                   tempFiles, raisedBy, used>>
    /\ UNCHANGED parseVars

\* download_file returns (content, link, _path)
DownloadOk ==
    /\ pc = "file"
    /\ j <= Len(files)
    /\ \E c \in Contents(adapter, FilePath(adapter, files[j])) :
         cur' = [content |-> c, link |-> FilePath(adapter, files[j]),
                 path |-> FilePath(adapter, files[j])]
    /\ fetched' = Append(fetched, <<i, j>>)
    /\ pc' = "downloaded"
    /\ UNCHANGED <<adapter, pdfCfg, paths, i, files, j, documents, response,
                   tempFiles, outcomes, raisedBy, used>>
    /\ UNCHANGED parseVars

\* a faulty variant: the fallback extractor runs after the extraction collaborator
\* whatever it answered
AfterUnstructuredAlwaysFallback(ok) == "fallback"

\* the extraction collaborator raised: the fallback is tried (line 87);
\* it returned: the file is done
AfterUnstructured(ok) == IF ok THEN "file" ELSE "fallback"

\* self.unstructured_pdf.load_bytes(content, filename, document_type)
ReadPdfUnstructured ==
    /\ pc = "downloaded"
    /\ IsBinary(adapter, cur.path)
    /\ \E ok \in BOOLEAN, n \in 0..MaxParts :
         /\ ok <=> n > 0
         /\ pc' = AfterUnstructured(ok)
         /\ documents' = AppendDocs(documents,
                Parts(FileName(cur.path), "unstructured", i, j, n))
         /\ IF pc' = "file"
            THEN /\ outcomes' = Append(outcomes,
                        Outcome(i, j, <<"unstructured">>,
                                IF ok THEN "extracted" ELSE "skipped", n))
                 /\ j' = j + 1
                 /\ cur' = NoFile
            ELSE /\ outcomes' = Append(outcomes,
                        Outcome(i, j, <<"unstructured">>,
                                IF ok THEN "extracted" ELSE "pending", n))
                 /\ UNCHANGED <<j, cur>>
    /\ UNCHANGED <<adapter, pdfCfg, paths, i, files, response, tempFiles,
                   fetched, raisedBy, used>>
    /\ UNCHANGED parseVars

\* the fallback extractor raised: warn, continue (lines 101-103)
AfterFallback(ok) == "file"

\* the fallback: the bytes are written to temp_<filename> and
\* self.pdf_reader.load(paths=[temp_file_path]) reads it.  written is
\* whether open() and write() got as far as creating the file.  An
\* extractor that returns, returns at least one document.
ReadPdfFallback ==
    /\ pc = "fallback"
    /\ \E written \in BOOLEAN, ok \in BOOLEAN, n \in 0..MaxParts :
         /\ ok => written
         /\ ok <=> n > 0
         /\ tempFiles' = IF written
                         THEN tempFiles \cup {TempFilePath(FileName(cur.path))}
                         ELSE tempFiles
         /\ documents' = AppendDocs(documents,
                Parts(FileName(cur.path), "pdfreader", i, j, n))
         /\ outcomes' = [outcomes EXCEPT ![Len(outcomes)] =
                Outcome(i, j, <<"unstructured", "pdfreader">>,
                        IF ok THEN "extracted" ELSE "skipped",
                        outcomes[Len(outcomes)].n + n)]
         /\ pc' = AfterFallback(ok)
         /\ raisedBy' = IF pc' = "raised" THEN "pdfreader" ELSE raisedBy
    /\ j' = j + 1
    /\ cur' = NoFile
    /\ UNCHANGED <<adapter, pdfCfg, paths, i, files, response, fetched, used>>
    /\ UNCHANGED parseVars

\* a faulty variant: a .json file that cannot be loaded is skipped
AfterJsonSkips(ok) == "file"

\* json.loads and Document.from_json are not guarded (GitLab), or guarded
\* by a handler that raises again (GitHub, line 111)
AfterJson(ok) == IF ok THEN "file" ELSE "raised"

\* json_obj = json.loads(content); document = Document.from_json(json_obj)
ReadJson ==
    /\ pc = "downloaded"
    /\ ~IsBinary(adapter, cur.path)
    /\ IsJson(adapter, cur.path)
    /\ LET ok == cur.content = "json_document"
       IN  /\ pc' = AfterJson(ok)
           /\ raisedBy' = IF pc' = "raised" THEN "json" ELSE raisedBy
           /\ documents' = IF ok
                           THEN AppendDocs(documents,
                                    <<Doc(FileName(cur.path), "json", i, j, 1)>>)
                           ELSE documents
           /\ outcomes' = Append(outcomes,
                  Outcome(i, j, <<>>, IF ok THEN "json" ELSE "json_failed",
                          IF ok THEN 1 ELSE 0))
           /\ j' = IF pc' = "raised" THEN j ELSE j + 1
    /\ cur' = NoFile
    /\ UNCHANGED <<adapter, pdfCfg, paths, i, files, response, tempFiles,
                   fetched, used>>
    /\ UNCHANGED parseVars

\* document = Document(text=content, ..., name=_file or filename, ...)
ReadText ==
    /\ pc = "downloaded"
    /\ ~IsBinary(adapter, cur.path)
    /\ ~IsJson(adapter, cur.path)
    /\ documents' = AppendDocs(documents,
           <<Doc(IF adapter = "github" THEN cur.path ELSE FileName(cur.path),
                 "text", i, j, 1)>>)
    /\ outcomes' = Append(outcomes, Outcome(i, j, <<>>, "text", 1))
    /\ pc' = "file"
    /\ j' = j + 1
    /\ cur' = NoFile
    /\ UNCHANGED <<adapter, pdfCfg, paths, i, files, response, tempFiles,
                   fetched, raisedBy, used>>
    /\ UNCHANGED parseVars

Init ==
    /\ adapter \in {"github", "gitlab"}
    /\ pdfCfg \in BOOLEAN
    /\ paths = <<>>
    /\ pc = "idle"
    /\ i = 1
    /\ files = <<>>
    /\ j = 1
    /\ cur = NoFile
    /\ documents = <<>>
    /\ response = NoResponse
    /\ tempFiles = {}
    /\ fetched = <<>>
    /\ outcomes = <<>>
    /\ raisedBy = "none"
    /\ used = 0
    /\ segs = <<>>
    /\ location = <<>>
    /\ parsedFetch = NotParsedFetch
    /\ parsedDownload = NotParsed

Next ==
    \/ Load
    \/ Return
    \/ SkipEmptyPath
    \/ FetchDocsParseFails
    \/ FetchDocsCall
    \/ StartFiles
    \/ NextLocation
    \/ DownloadFails
    \/ DownloadOk
    \/ ReadPdfUnstructured
    \/ ReadPdfFallback
    \/ ReadJson
    \/ ReadText

Spec == Init /\ [][Next]_vars

-----------------------------------------------------------------------------
(* What the claims speak of. *)

\* the documents that file f of location l produced
DocsFrom(l, f) == {k \in 1..Len(documents) : documents[k].loc = l /\ documents[k].file = f}

\* the number of download_file calls made for file f of location l
TimesFetched(l, f) == Cardinality({k \in 1..Len(fetched) : fetched[k] = <<l, f>>})

\* load() has gone past file f of location l
MovedPast(l, f) == l < i \/ (l = i /\ f < j)

InFilesLoop == pc \in {"file", "downloaded", "fallback"}

\* p comes before q in depth-first order
RECURSIVE LexLess(_, _)
LexLess(p, q) ==
    IF q = <<>> THEN FALSE
    ELSE IF p = <<>> THEN TRUE
    ELSE IF p[1] # q[1] THEN p[1] < q[1]
    ELSE LexLess(Tail(p), Tail(q))

\* the positions of S, in depth-first order
RECURSIVE InOrder(_)
InOrder(S) ==
    IF S = {} THEN <<>>
    ELSE LET first == CHOOSE p \in S : \A q \in S : q = p \/ LexLess(p, q)
         IN  <<first>> \o InOrder(S \ {first})

\* a position is the index of an entry at each level from the top one
\* down; the positions of the entries of resp and of its sub-folders
RECURSIVE PositionsOf(_)
PositionsOf(resp) ==
    IF resp.kind # "ok" THEN {}
    ELSE UNION { {<<k>>} \cup
                 (IF resp.tree[k].kind = "ok" /\ resp.tree[k].type = "tree"
                  THEN {<<k>> \o q : q \in PositionsOf(resp.tree[k].sub)}
                  ELSE {})
               : k \in 1..Len(resp.tree) }

RECURSIVE EntryAt(_, _)
EntryAt(resp, p) ==
    IF Len(p) = 1 THEN resp.tree[p[1]] ELSE EntryAt(resp.tree[p[1]].sub, Tail(p))

\* an entry on which the listing of its level fails
Malformed(e) == e.kind # "ok"

\* no level on the way to p failed before it came to p
RECURSIVE ReachedBeforeFailure(_, _)
ReachedBeforeFailure(resp, p) ==
    /\ \A k \in 1..p[1] : ~Malformed(resp.tree[k])
    /\ Len(p) > 1 => ReachedBeforeFailure(resp.tree[p[1]].sub, Tail(p))

\* no level on the way to p failed at all
RECURSIVE OnlySoundLevels(_, _)
OnlySoundLevels(resp, p) ==
    /\ \A k \in 1..Len(resp.tree) : ~Malformed(resp.tree[k])
    /\ Len(p) > 1 => OnlySoundLevels(resp.tree[p[1]].sub, Tail(p))

\* the positions of the allow-listed blobs of a GitLab response
GitLabBlobs(resp, cfg) ==
    {p \in PositionsOf(resp) :
        /\ EntryAt(resp, p).kind = "ok"
        /\ EntryAt(resp, p).type = "blob"
        /\ EndsWithAny(EntryAt(resp, p).path, SupportedFileTypes("gitlab", cfg))}

\* the positions of the entries of a GitHub response that lie under the
\* folder prefix of the location and end in a listed suffix
GithubBlobs(resp, path) ==
    {p \in PositionsOf(resp) :
        /\ Len(p) = 1
        /\ StartsWith(resp.tree[p[1]].path, GithubFetchParse(path).folder_path)
        /\ EndsWithAny(resp.tree[p[1]].path, GithubListedSuffixes)}

\* the list a lister is to return for the entries at positions S
ListOf(a, path, resp, S) ==
    LET ps == InOrder(S)
    IN  [k \in 1..Len(ps) |->
            IF a = "github" THEN EntryAt(resp, ps[k]).path
            ELSE GitLabFileRef(EntryAt(resp, ps[k]).path,
                               GitLabParsePath(path).project_id,
                               GitLabParsePath(path).branch)]

Range(f) == {f[k] : k \in DOMAIN f}

-----------------------------------------------------------------------------
(* C1: every path the tree lister returns ends in a suffix of the          *)
(* configured allow-list: .md, .mdx, .txt, .json, and the binary suffixes  *)
(* (.pdf and .epub for GitHub, .pdf for GitLab) only when an extraction    *)
(* endpoint is configured.                                                  *)
C1_ListedInAllowList ==
    pc = "listed" =>
        \A k \in 1..Len(files) :
            EndsWithAny(FilePath(adapter, files[k]), SupportedFileTypes(adapter, pdfCfg))

(* C2, as claimed: for any combination of listing, fetch, parse or          *)
(* extraction failures load() returns normally, and the list it returns     *)
(* holds the documents of every file that was processed successfully.       *)
C2_AlwaysReturns ==
    /\ pc # "raised"
    /\ pc = "done" =>
          \A k \in 1..Len(outcomes) :
              Cardinality(DocsFrom(outcomes[k].loc, outcomes[k].file)) = outcomes[k].n

(* C2, amended: load() returns partial results for any combination of      *)
(* download and extraction failures and, in GitLab, of listing failures:    *)
(* an exception leaves load() only from a GitHub listing or from a .json    *)
(* file that cannot be loaded; when load() returns, the list holds the      *)
(* documents of every file processed successfully and none of a failed one. *)
C2_PartialResults ==
    /\ pc = "raised" =>
          \/ raisedBy = "json"
          \/ raisedBy = "fetch_docs" /\ adapter = "github"
    /\ pc = "done" =>
          /\ \A k \in 1..Len(outcomes) :
                Cardinality(DocsFrom(outcomes[k].loc, outcomes[k].file)) = outcomes[k].n
          /\ \A d \in 1..Len(documents) :
                \E k \in 1..Len(outcomes) :
                    /\ outcomes[k].loc = documents[d].loc
                    /\ outcomes[k].file = documents[d].file
                    /\ outcomes[k].result \in {"text", "json", "extracted"}

\* load() has returned documents although a download failed, and GitLab
\* has passed over a location it could not list
C2_Witness ==
    /\ pc = "done"
    /\ adapter = "gitlab"
    /\ paths = <<LocOne, LocFolder>>
    /\ Len(documents) = 1
    /\ \E k \in 1..Len(outcomes) : outcomes[k].result = "fetch_failed"

(* C3: when download_file fails for a listed file, the file contributes no  *)
(* document, the failure does not leave load(), the file is not fetched     *)
(* again, and the later files of the location and the later locations are   *)
(* still fetched and processed.                                             *)
C3_FetchFailureSkipsOneFile ==
    /\ \A k \in 1..Len(outcomes) :
          outcomes[k].result = "fetch_failed" =>
              LET l == outcomes[k].loc
                  f == outcomes[k].file
              IN  /\ DocsFrom(l, f) = {}
                  /\ TimesFetched(l, f) = 1
                  /\ MovedPast(l, f)
                  /\ (InFilesLoop /\ l = i) =>
                        \A g \in (f + 1)..(j - 1) : TimesFetched(i, g) = 1
                  /\ (pc = "file" /\ l = i /\ f = Len(files)) => j = f + 1
    /\ (pc = "raised" /\ outcomes # <<>>
          /\ outcomes[Len(outcomes)].result = "fetch_failed") =>
              /\ raisedBy = "fetch_docs"
              /\ outcomes[Len(outcomes)].loc < i
    /\ pc = "done" => i = Len(paths) + 1

\* the only file of the first location could not be downloaded, and the
\* file of the second location was fetched and made a document
C3_Witness ==
    /\ pc = "done"
    /\ Len(outcomes) = 2
    /\ outcomes[1].result = "fetch_failed"
    /\ outcomes[1].loc = 1
    /\ outcomes[2].loc = 2
    /\ Len(documents) = 1
    /\ documents[1].loc = 2

(* C4: when the content of a .json file cannot be parsed, or cannot be      *)
(* made a document, the exception leaves load(): the file is not skipped,   *)
(* no later file is processed and no document list is returned.             *)
C4_JsonFailureIsFatal ==
    \A k \in 1..Len(outcomes) :
        outcomes[k].result = "json_failed" =>
            /\ pc = "raised"
            /\ raisedBy = "json"
            /\ k = Len(outcomes)
            /\ fetched[Len(fetched)] = <<outcomes[k].loc, outcomes[k].file>>
            /\ i = outcomes[k].loc
            /\ j = outcomes[k].file
            /\ DocsFrom(outcomes[k].loc, outcomes[k].file) = {}

\* GitLab: a .json file that cannot be loaded ends load() after a document
\* had been collected
C4_Witness ==
    /\ adapter = "gitlab"
    /\ pc = "raised"
    /\ raisedBy = "json"
    /\ Len(documents) = 1
    /\ outcomes[Len(outcomes)].result = "json_failed"

(* C5: for a .pdf file (and .epub in GitHub) the extraction collaborator    *)
(* is tried first; the fallback extractor is invoked only if it fails, and  *)
(* never if it succeeds; if the fallback fails too, the file contributes    *)
(* no document, load() does not raise, and the remaining files are          *)
(* processed.                                                               *)
C5_ExtractionFallsBack ==
    /\ \A k \in 1..Len(outcomes) :
          LET o == outcomes[k]
              byCollaborator == {d \in DocsFrom(o.loc, o.file) :
                                    documents[d].via = "unstructured"}
              byFallback == {d \in DocsFrom(o.loc, o.file) :
                                documents[d].via = "pdfreader"}
          IN  /\ o.calls # <<>> => o.calls[1] = "unstructured"
              /\ Len(o.calls) <= 2
              /\ Len(o.calls) = 2 => o.calls[2] = "pdfreader" /\ byCollaborator = {}
              /\ byCollaborator # {} => o.calls = <<"unstructured">> /\ byFallback = {}
              /\ byFallback # {} => o.calls = <<"unstructured", "pdfreader">>
              /\ o.result = "skipped" =>
                    /\ o.calls = <<"unstructured", "pdfreader">>
                    /\ DocsFrom(o.loc, o.file) = {}
                    /\ MovedPast(o.loc, o.file)
                    /\ (InFilesLoop /\ o.loc = i) =>
                          \A g \in (o.file + 1)..(j - 1) : TimesFetched(i, g) = 1
                    /\ (pc = "file" /\ o.loc = i /\ o.file = Len(files)) => j = o.file + 1
    /\ pc = "fallback" =>
          /\ outcomes[Len(outcomes)].result = "pending"
          /\ DocsFrom(i, j) = {}
    /\ pc = "raised" => raisedBy \in {"json", "fetch_docs"}
    /\ \A d \in 1..Len(documents) :
          documents[d].via \in {"unstructured", "pdfreader"} =>
              \E k \in 1..Len(outcomes) :
                  /\ outcomes[k].loc = documents[d].loc
                  /\ outcomes[k].file = documents[d].file
                  /\ outcomes[k].calls # <<>>

\* GitHub: both extractors failed on an .epub file, and the next file of
\* the location was processed by the collaborator alone
C5_Witness ==
    /\ adapter = "github"
    /\ pc = "done"
    /\ Len(outcomes) = 2
    /\ outcomes[1].result = "skipped"
    /\ outcomes[1].calls = <<"unstructured", "pdfreader">>
    /\ outcomes[2].loc = outcomes[1].loc
    /\ outcomes[2].calls = <<"unstructured">>
    /\ Len(documents) = 1
    /\ EndsWith(documents[1].name, DotEpub) \/ EndsWith(documents[1].name, DotPdf)

(* C6, as claimed: in the GitLab lister a listing failure at a folder       *)
(* level (failed call or malformed entry) yields an empty list for that     *)
(* folder only; the references of ancestor folders and of sibling           *)
(* sub-folders are returned.                                                *)
C6_FailedLevelIsEmpty ==
    (pc = "listed" /\ adapter = "gitlab") =>
        Range(files) =
            Range(ListOf("gitlab", paths[i], response,
                         {p \in GitLabBlobs(response, pdfCfg) :
                             OnlySoundLevels(response, p)}))

(* C6, amended: in the GitLab lister a listing failure at a folder level    *)
(* is caught inside fetch_docs and ends the listing of that level only: a   *)
(* failed call yields an empty list for the folder, a malformed entry       *)
(* yields the references the level had collected before it; fetch_docs      *)
(* does not raise, and the references of ancestor folders and of sibling    *)
(* sub-folders, listed before or after the failing one, are returned.       *)
C6_FailedLevelKeepsItsPrefix ==
    /\ (pc = "listed" /\ adapter = "gitlab") =>
          Range(files) =
              Range(ListOf("gitlab", paths[i], response,
                           {p \in GitLabBlobs(response, pdfCfg) :
                               ReachedBeforeFailure(response, p)}))
    /\ (adapter = "gitlab" /\ response # NoResponse) => pc = "listed"

\* the listing of a sub-folder failed at its second entry: its first file
\* is returned
C6_Witness ==
    /\ pc = "listed"
    /\ adapter = "gitlab"
    /\ \E p \in GitLabBlobs(response, pdfCfg) :
          /\ Len(p) = 2
          /\ ReachedBeforeFailure(response, p)
          /\ ~OnlySoundLevels(response, p)
    /\ Len(files) = 1

(* C7: the temporary file the fallback path writes is removed on every      *)
(* exit path: once load() has finished, no temporary file of the call is    *)
(* left in local storage.                                                   *)
C7_NoTempFileLeft ==
    pc \in {"done", "raised"} => tempFiles = {}

(* C9: no sorting: the lister returns the file references in the order of   *)
(* the API's answer (GitLab: depth first, the files of a sub-folder at the  *)
(* place of its entry), and the documents load() collects are in the order  *)
(* of the locations and, within a location, of the listing of their files.  *)
C9_OrderPreserved ==
    /\ (pc = "listed" /\ adapter = "gitlab") =>
          files = ListOf("gitlab", paths[i], response,
                         {p \in GitLabBlobs(response, pdfCfg) :
                             ReachedBeforeFailure(response, p)})
    /\ (pc = "listed" /\ adapter = "github") =>
          files = ListOf("github", paths[i], response,
                         GithubBlobs(response, paths[i]))
    /\ \A a \in 1..(Len(documents) - 1) :
          LexLess(<<documents[a].loc, documents[a].file, documents[a].part>>,
                  <<documents[a + 1].loc, documents[a + 1].file, documents[a + 1].part>>)
    /\ InFilesLoop =>
          \A d \in 1..Len(documents) :
              documents[d].loc = i =>
                  /\ documents[d].file <= Len(files)
                  /\ FileName(documents[d].name) =
                        FileName(FilePath(adapter, files[documents[d].file]))

\* GitLab has listed the file of a sub-folder before the file that follows
\* the sub-folder, and load() has returned one document of each, in that order
C9_Witness ==
    /\ adapter = "gitlab"
    /\ pc = "done"
    /\ Len(documents) = 2
    /\ documents[1].loc = documents[2].loc
    /\ documents[1].file = 1
    /\ documents[1].name = <<"b">> \o DotTxt
    /\ documents[2].file = 2
    /\ documents[2].name = <<"a">> \o DotMd

(* C10: the GitHub lister returns only files inside the folder of the       *)
(* location: with a folder prefix F that is not empty, every returned path  *)
(* has the form F/...                                                       *)
C10_ListedInsideFolder ==
    (pc = "listed" /\ adapter = "github") =>
        LET folder_path == GithubFetchParse(paths[i]).folder_path
        IN  folder_path # <<>> =>
                \A k \in 1..Len(files) :
                    StartsWith(files[k], folder_path \o <<Slash>>)

-----------------------------------------------------------------------------
(* Specification of the parsers: a location is written from its segments,   *)
(* and both GitHub operations parse it.                                     *)

\* the segments a location is written from: none holds a slash
SegmentPool == {<<>>, <<"o">>, <<"d", "o", "c">>}

InitParse ==
    /\ LoadIdle
    /\ segs \in {q \in SeqsUpTo(SegmentPool, MaxSegs) : Len(q) >= 1}
    /\ location = Join(segs, Slash)
    /\ parsedFetch = NotParsedFetch
    /\ parsedDownload = NotParsed

\* fetch_docs(path) parses the location
FetchDocsParses ==
    /\ parsedFetch = NotParsedFetch
    /\ parsedFetch' = GithubFetchParse(location)
    /\ UNCHANGED <<segs, location, parsedDownload>>
    /\ UNCHANGED loadVars

\* download_file(path, file_path) parses the location
DownloadFileParses ==
    /\ parsedDownload = NotParsed
    /\ parsedDownload' = GithubDownloadParse(location)
    /\ UNCHANGED <<segs, location, parsedFetch>>
    /\ UNCHANGED loadVars

NextParse == FetchDocsParses \/ DownloadFileParses

SpecParse == InitParse /\ [][NextParse]_vars

-----------------------------------------------------------------------------
(* C8: in the GitHub adapter, a location of at least 2 segments is parsed   *)
(* the same by the tree lister and by the content fetcher: owner is         *)
(* segment 1, repo is segment 2, branch is segment 3 when there are at      *)
(* least 3 segments and "main" when there are exactly 2, and the folder     *)
(* prefix is segments 4.. joined with "/" (empty when fewer than 4).        *)
C8_ParsersAgree ==
    Len(segs) >= 2 =>
        /\ parsedFetch # NotParsedFetch =>
              /\ ~parsedFetch.raised
              /\ parsedFetch.owner = segs[1]
              /\ parsedFetch.repo = segs[2]
              /\ parsedFetch.branch = (IF Len(segs) >= 3 THEN segs[3] ELSE Main)
              /\ parsedFetch.folder_path =
                    (IF Len(segs) < 4 THEN <<>>
                     ELSE Join([k \in 1..(Len(segs) - 3) |-> segs[k + 3]], Slash))
        /\ parsedDownload # NotParsed =>
              /\ ~parsedDownload.raised
              /\ parsedDownload.owner = segs[1]
              /\ parsedDownload.repo = segs[2]
              /\ parsedDownload.branch = (IF Len(segs) >= 3 THEN segs[3] ELSE Main)
        /\ (parsedFetch # NotParsedFetch /\ parsedDownload # NotParsed) =>
              /\ parsedFetch.owner = parsedDownload.owner
              /\ parsedFetch.repo = parsedDownload.repo
              /\ parsedFetch.branch = parsedDownload.branch

\* both operations have parsed a 5-segment location and a 2-segment one exists
C8_Witness ==
    /\ Len(segs) = 5
    /\ segs[4] # <<>>
    /\ segs[5] # <<>>
    /\ parsedFetch # NotParsedFetch
    /\ parsedDownload # NotParsed
    /\ parsedFetch.folder_path = segs[4] \o <<Slash>> \o segs[5]

=============================================================================
